---- MODULE Spec2Model ----
(***************************************************************************)
(* Dining philosophers with a monitor (src/main.py).                       *)
(*                                                                         *)
(* The model covers the Monitor class (state, forks_in_use, running, the   *)
(* condition variable), the philosopher thread loop, and the part of       *)
(* main() that issues stop() and the restart sequence.  The event log and  *)
(* the drawing code take no part in any control decision and are left out. *)
(*                                                                         *)
(* Every method of Monitor runs inside "with self.condition", so each      *)
(* critical section (from taking the lock to releasing it, or to the       *)
(* condition wait that releases it) is one action.  The statements that    *)
(* run WITHOUT the lock (the philosopher loop's reads of running, and the  *)
(* restart sequence of main, one action per shared read or write) are      *)
(* separate actions.  They interleave with the critical sections at the    *)
(* sections' boundaries; the unlocked writes of the restart sequence could *)
(* also land in the middle of another thread's critical section, which     *)
(* adds behaviours to SpecRestart only and is not modelled.                *)
(*                                                                         *)
(* Closing the window (QUIT) calls stop() once more and joins the threads; *)
(* with running already false, or as the first stop(), it changes the      *)
(* monitor exactly as Stop does, and is not a separate action.             *)
(***************************************************************************)
EXTENDS Integers, FiniteSets

NUM_PHILOSOPHERS == 5

THINKING == 0
HUNGRY == 1
EATING == 2
DEADLOCK == 3

\* forks_in_use[f] is None (free) or the index of the philosopher holding it
None == -1

\* how many times the Start/Stop button may be pressed (SpecRestart only)
MaxClicks == 2

\* how many philosopher threads may still be alive when Start is pressed
\* (SpecRestart only)
MaxStale == 1

\* how many calls of pickup_forks a run may make (SpecRestart only)
MaxRequests == 5

Idx == 0 .. (NUM_PHILOSOPHERS - 1)

\* A philosopher thread is named by its index and by the generation that
\* spawned it: generation 0 is spawned by main() at startup, generation g by
\* the g-th press of Start (every second press of the button).
Gen == 0 .. (MaxClicks \div 2)
Thread == Idx \X Gen

id(t) == t[1]

\* Position of a philosopher thread:
\*   "think"  from "while monitor.running" to the end of the thinking sleep
\*            and "if not monitor.running" (108-111)
\*   "pickup" calling pickup_forks, before the lock is taken (113, 75)
\*   "wait"   inside condition.wait, lock released (88)
\*   "woken"  notified or timed out, waiting to re-take the lock (88)
\*   "eat"    pickup_forks returned True: eating sleep, then putdown_forks (114-115)
\*   "dead"   not started, or the thread function has returned
PC == {"think", "pickup", "wait", "woken", "eat", "dead"}

VARIABLES
    state,          \* Monitor.state
    forks_in_use,   \* Monitor.forks_in_use
    running,        \* Monitor.running
    pc,             \* position of every philosopher thread
    expired,        \* per thread: TIMEOUT seconds have passed since start_time
    mpc,            \* position of the main thread
    mi,             \* loop variable i of main's clearing loop
    clicks,         \* number of presses of the button handled so far
    requests,       \* number of pickup_forks calls so far (counted in SpecRestart only)
    carried         \* history: the threads whose pending pickup_forks call
                    \* began before the latest Start

vars == <<state, forks_in_use, running, pc, expired, mpc, mi, clicks, requests,
          carried>>

\* the variables that record history and are not data of the program
hist == <<requests, carried>>

left(i) == (i + NUM_PHILOSOPHERS - 1) % NUM_PHILOSOPHERS
right(i) == i

TypeOK ==
    /\ state \in [Idx -> {THINKING, HUNGRY, EATING, DEADLOCK}]
    /\ forks_in_use \in [Idx -> Idx \cup {None}]
    /\ running \in BOOLEAN
    /\ pc \in [Thread -> PC]
    /\ expired \in [Thread -> BOOLEAN]
    /\ mpc \in {"idle", "clear", "write", "spawn"}
    /\ mi \in Idx
    /\ clicks \in 0 .. MaxClicks
    /\ requests \in 0 .. MaxRequests
    /\ carried \in SUBSET Thread

\* Monitor.__init__ followed by the first spawning loop of main()
Init ==
    /\ state = [i \in Idx |-> THINKING]
    /\ forks_in_use = [i \in Idx |-> None]
    /\ running = TRUE
    /\ pc = [t \in Thread |-> IF t[2] = 0 THEN "think" ELSE "dead"]
    /\ expired = [t \in Thread |-> FALSE]
    /\ mpc = "idle"
    /\ mi = 0
    /\ clicks = 0
    /\ requests = 0
    /\ carried = {}

----------------------------------------------------------------------------
\* The monitor's data as a value: m.state, m.forks, and m.notified, which
\* records whether notify_all was called in the current critical section.

Mon(st, fk) == [state |-> st, forks |-> fk, notified |-> FALSE]

\* test's condition with the check of the left fork forgotten
test_cond_no_left(m, i) ==
    /\ m.state[i] = HUNGRY
    /\ m.forks[right(i)] = None


\* test's condition with the check for HUNGRY forgotten
test_cond_no_hungry(m, i) ==
    /\ m.forks[left(i)] = None
    /\ m.forks[right(i)] = None

\* the condition of the if in Monitor.test
test_cond(m, i) ==
    /\ m.state[i] = HUNGRY
    /\ m.forks[left(i)] = None
    /\ m.forks[right(i)] = None

\* test granting EATING but recording only the right fork as taken
test_right_fork_only(m, i) ==
    IF test_cond(m, i)
    THEN [state |-> [m.state EXCEPT ![i] = EATING],
          forks |-> [m.forks EXCEPT ![right(i)] = i],
          notified |-> TRUE]
    ELSE m


\* test granting without condition.notify_all
test_no_notify(m, i) ==
    IF test_cond(m, i)
    THEN [state |-> [m.state EXCEPT ![i] = EATING],
          forks |-> [m.forks EXCEPT ![left(i)] = i, ![right(i)] = i],
          notified |-> m.notified]
    ELSE m

\* Monitor.test
test(m, i) ==
    IF test_cond(m, i)
    THEN [state |-> [m.state EXCEPT ![i] = EATING],
          forks |-> [m.forks EXCEPT ![left(i)] = i, ![right(i)] = i],
          notified |-> TRUE]
    ELSE m

\* condition.notify_all: every thread inside condition.wait is woken
notify_all(p) == [t \in Thread |-> IF p[t] = "wait" THEN "woken" ELSE p[t]]

Deliver(m, p) == IF m.notified THEN notify_all(p) ELSE p

----------------------------------------------------------------------------
\* philosopher, lines 108-112: while monitor.running; the thinking sleep;
\* if not monitor.running: break.  The thread does nothing else between its
\* two reads of running, so they are taken as one read at the second one's
\* time: whenever both reads can see True, so can a single read at that time.
Think(t) ==
    /\ pc[t] = "think"
    /\ pc' = [pc EXCEPT ![t] = IF running THEN "pickup" ELSE "dead"]
    /\ UNCHANGED <<state, forks_in_use, running, expired, mpc, mi, clicks>>

\* pickup_forks marking the caller HUNGRY before it looks at running
PickupEnter_hungry_first(t) ==
    /\ pc[t] = "pickup"
    /\ IF ~running
       THEN /\ pc' = [pc EXCEPT ![t] = "think"]
            /\ state' = [state EXCEPT ![id(t)] = HUNGRY]
            /\ UNCHANGED <<forks_in_use, expired>>
       ELSE LET m == test(Mon([state EXCEPT ![id(t)] = HUNGRY], forks_in_use), id(t))
            IN  /\ state' = m.state
                /\ forks_in_use' = m.forks
                /\ expired' = [expired EXCEPT ![t] = FALSE]
                /\ pc' = [Deliver(m, pc) EXCEPT
                            ![t] = IF m.state[id(t)] = EATING THEN "eat" ELSE "wait"]
    /\ UNCHANGED <<running, mpc, mi, clicks>>


\* pickup_forks entering condition.wait once before it looks at the state
PickupEnter_wait_first(t) ==
    /\ pc[t] = "pickup"
    /\ IF ~running
       THEN /\ pc' = [pc EXCEPT ![t] = "think"]
            /\ UNCHANGED <<state, forks_in_use, expired>>
       ELSE LET m == test(Mon([state EXCEPT ![id(t)] = HUNGRY], forks_in_use), id(t))
            IN  /\ state' = m.state
                /\ forks_in_use' = m.forks
                /\ expired' = [expired EXCEPT ![t] = FALSE]
                /\ pc' = [Deliver(m, pc) EXCEPT ![t] = "wait"]
    /\ UNCHANGED <<running, mpc, mi, clicks>>

\* Monitor.pickup_forks, lines 75-88: from taking the lock to the first
\* return or the first condition.wait
PickupEnter(t) ==
    /\ pc[t] = "pickup"
    /\ IF ~running
       THEN /\ pc' = [pc EXCEPT ![t] = "think"]
            /\ UNCHANGED <<state, forks_in_use, expired>>
       ELSE LET m == test(Mon([state EXCEPT ![id(t)] = HUNGRY], forks_in_use), id(t))
            IN  /\ state' = m.state
                /\ forks_in_use' = m.forks
                /\ expired' = [expired EXCEPT ![t] = FALSE]
                /\ pc' = [Deliver(m, pc) EXCEPT
                            ![t] = IF m.state[id(t)] = EATING THEN "eat" ELSE "wait"]
    /\ UNCHANGED <<running, mpc, mi, clicks>>

\* TIMEOUT seconds have passed since start_time of t's request; a thread
\* inside condition.wait(remaining) returns from the wait
TimePasses(t) ==
    /\ pc[t] \in {"wait", "woken"}
    /\ ~expired[t]
    /\ expired' = [expired EXCEPT ![t] = TRUE]
    /\ pc' = [pc EXCEPT ![t] = "woken"]
    /\ UNCHANGED <<state, forks_in_use, running, mpc, mi, clicks>>

\* pickup_forks giving up after the timeout without recording DEADLOCK
PickupRecheck_no_deadlock(t) ==
    /\ pc[t] = "woken"
    /\ IF state[id(t)] # EATING /\ running
       THEN IF expired[t]
            THEN /\ pc' = [pc EXCEPT ![t] = "think"]
                 /\ expired' = [expired EXCEPT ![t] = FALSE]
                 /\ UNCHANGED state
            ELSE /\ pc' = [pc EXCEPT ![t] = "wait"]
                 /\ UNCHANGED <<state, expired>>
       ELSE /\ pc' = [pc EXCEPT ![t] =
                        IF running /\ state[id(t)] = EATING THEN "eat" ELSE "think"]
            /\ expired' = [expired EXCEPT ![t] = FALSE]
            /\ UNCHANGED state
    /\ UNCHANGED <<forks_in_use, running, mpc, mi, clicks>>

\* Monitor.pickup_forks, lines 82-89: the lock is re-taken after the wait,
\* the while condition is evaluated again
PickupRecheck(t) ==
    /\ pc[t] = "woken"
    /\ IF state[id(t)] # EATING /\ running
       THEN IF expired[t]
            THEN /\ state' = [state EXCEPT ![id(t)] = DEADLOCK]
                 /\ pc' = [pc EXCEPT ![t] = "think"]
                 /\ expired' = [expired EXCEPT ![t] = FALSE]
            ELSE /\ pc' = [pc EXCEPT ![t] = "wait"]
                 /\ UNCHANGED <<state, expired>>
       ELSE /\ pc' = [pc EXCEPT ![t] =
                        IF running /\ state[id(t)] = EATING THEN "eat" ELSE "think"]
            /\ expired' = [expired EXCEPT ![t] = FALSE]
            /\ UNCHANGED state
    /\ UNCHANGED <<forks_in_use, running, mpc, mi, clicks>>


\* putdown_forks that forgets to test the neighbour i+1
putdown_forks_no_right_test(m, i) ==
    LET m0 == [m EXCEPT !.state[i] = THINKING,
                        !.forks[left(i)] = None,
                        !.forks[right(i)] = None]
    IN  test(m0, (i - 1 + NUM_PHILOSOPHERS) % NUM_PHILOSOPHERS)


\* putdown_forks that forgets to test the neighbour i-1
putdown_forks_no_left_test(m, i) ==
    LET m0 == [m EXCEPT !.state[i] = THINKING,
                        !.forks[left(i)] = None,
                        !.forks[right(i)] = None]
    IN  test(m0, (i + 1) % NUM_PHILOSOPHERS)

\* Monitor.putdown_forks as a function of the monitor's data
putdown_forks(m, i) ==
    LET m0 == [m EXCEPT !.state[i] = THINKING,
                        !.forks[left(i)] = None,
                        !.forks[right(i)] = None]
        m1 == test(m0, (i - 1 + NUM_PHILOSOPHERS) % NUM_PHILOSOPHERS)
    IN  test(m1, (i + 1) % NUM_PHILOSOPHERS)

\* philosopher, lines 114-115: the eating sleep ends, putdown_forks(id)
Putdown(t) ==
    /\ pc[t] = "eat"
    /\ LET m == putdown_forks(Mon(state, forks_in_use), id(t))
       IN  /\ state' = m.state
           /\ forks_in_use' = m.forks
           /\ pc' = [Deliver(m, pc) EXCEPT ![t] = "think"]
    /\ UNCHANGED <<running, expired, mpc, mi, clicks>>

----------------------------------------------------------------------------
\* stop() that forgets notify_all
Stop_no_notify ==
    /\ mpc = "idle"
    /\ running
    /\ running' = FALSE
    /\ clicks' = clicks + 1
    /\ UNCHANGED <<state, forks_in_use, pc, expired, mpc, mi>>

\* main, lines 191-194: the button is pressed while monitor.running:
\* Monitor.stop (lines 102-105)
Stop ==
    /\ mpc = "idle"
    /\ running
    /\ running' = FALSE
    /\ pc' = notify_all(pc)
    /\ clicks' = clicks + 1
    /\ UNCHANGED <<state, forks_in_use, expired, mpc, mi>>

Alive == {t \in Thread : pc[t] # "dead"}

\* main, lines 195-196: the button is pressed while not monitor.running:
\* monitor.running = True, written without the lock
StartSetRunning ==
    /\ mpc = "idle"
    /\ ~running
    /\ running' = TRUE
    /\ mpc' = "clear"
    /\ mi' = 0
    /\ clicks' = clicks + 1
    /\ UNCHANGED <<state, forks_in_use, pc, expired>>

\* main's position after the clearing loop has dealt with index mi
AfterClear == IF mi = NUM_PHILOSOPHERS - 1 THEN "spawn" ELSE "clear"
NextIndex == IF mi = NUM_PHILOSOPHERS - 1 THEN 0 ELSE mi + 1

\* main, line 198: if monitor.state[i] == DEADLOCK (read without the lock)
StartClearRead ==
    /\ mpc = "clear"
    /\ IF state[mi] = DEADLOCK
       THEN mpc' = "write" /\ mi' = mi
       ELSE mpc' = AfterClear /\ mi' = NextIndex
    /\ UNCHANGED <<state, forks_in_use, running, pc, expired, clicks>>

\* main, line 199: monitor.state[i] = THINKING (written without the lock)
StartClearWrite ==
    /\ mpc = "write"
    /\ state' = [state EXCEPT ![mi] = THINKING]
    /\ mpc' = AfterClear
    /\ mi' = NextIndex
    /\ UNCHANGED <<forks_in_use, running, pc, expired, clicks>>

\* main, lines 200-204: one new philosopher thread per index is started;
\* the old threads are neither joined nor checked
StartSpawn ==
    /\ mpc = "spawn"
    /\ pc' = [t \in Thread |-> IF t[2] = clicks \div 2 THEN "think" ELSE pc[t]]
    /\ mpc' = "idle"
    /\ UNCHANGED <<state, forks_in_use, running, expired, mi, clicks>>

Next ==
    \/ \E t \in Thread : PickupEnter(t) /\ UNCHANGED hist
    \/ \E t \in Thread : Think(t) /\ UNCHANGED hist
    \/ \E t \in Thread : TimePasses(t) /\ UNCHANGED hist
    \/ \E t \in Thread : PickupRecheck(t) /\ UNCHANGED hist
    \/ \E t \in Thread : Putdown(t) /\ UNCHANGED hist
    \/ Stop /\ UNCHANGED hist

\* the program with the button pressed at most once (Stop, never Start)
Spec == Init /\ [][Next]_vars

\* the carried requests that are still pending when the positions are p
StillPending(p) == {u \in carried : p[u] \in {"wait", "woken"}}

NextR ==
    \/ \E t \in Thread :
          /\ requests < MaxRequests
          /\ requests' = requests + 1
          /\ PickupEnter(t)
          /\ carried' = StillPending(pc')
    \/ \E t \in Thread : Think(t) /\ UNCHANGED hist
    \/ \E t \in Thread : TimePasses(t) /\ UNCHANGED hist
    \/ \E t \in Thread :
          /\ PickupRecheck(t)
          /\ carried' = StillPending(pc')
          /\ UNCHANGED requests
    \/ \E t \in Thread : Putdown(t) /\ UNCHANGED hist
    \/ clicks < MaxClicks /\ Stop /\ UNCHANGED hist
    \/ /\ clicks < MaxClicks
       /\ Cardinality(Alive) <= MaxStale
       /\ StartSetRunning
       /\ carried' = {u \in Thread : pc[u] \in {"wait", "woken"}}
       /\ UNCHANGED requests
    \/ StartClearRead /\ UNCHANGED hist
    \/ StartClearWrite /\ UNCHANGED hist
    \/ StartSpawn /\ UNCHANGED hist

\* the program with the button pressed up to MaxClicks times, Start pressed
\* when at most MaxStale old threads are left, up to MaxRequests requests
SpecRestart == Init /\ [][NextR]_vars

----------------------------------------------------------------------------
\* Fair scheduling of the philosopher threads: a thread that can take a step
\* eventually takes it (sleeps end, the lock is eventually obtained), and
\* the timeout of a pending request eventually fires.
FairSpec ==
    /\ Spec
    /\ \A t \in Thread : WF_vars(PickupEnter(t) /\ UNCHANGED hist)
    /\ \A t \in Thread : WF_vars(Think(t) /\ UNCHANGED hist)
    /\ \A t \in Thread : WF_vars(TimePasses(t) /\ UNCHANGED hist)
    /\ \A t \in Thread : WF_vars(PickupRecheck(t) /\ UNCHANGED hist)
    /\ \A t \in Thread : WF_vars(Putdown(t) /\ UNCHANGED hist)


----------------------------------------------------------------------------
\* The philosopher threads alone: the button is never pressed (running stays
\* true) and no request reaches its timeout.
NextRun ==
    \/ \E t \in Thread : PickupEnter(t) /\ UNCHANGED hist
    \/ \E t \in Thread : Think(t) /\ UNCHANGED hist
    \/ \E t \in Thread : PickupRecheck(t) /\ UNCHANGED hist
    \/ \E t \in Thread : Putdown(t) /\ UNCHANGED hist

\* ... under fair scheduling: every sleep ends, every thread that asks for
\* the lock gets it, so every actor that eats releases its forks
FairRunSpec ==
    /\ Init /\ [][NextRun]_vars
    /\ \A t \in Thread : WF_vars(PickupEnter(t) /\ UNCHANGED hist)
    /\ \A t \in Thread : WF_vars(Think(t) /\ UNCHANGED hist)
    /\ \A t \in Thread : WF_vars(PickupRecheck(t) /\ UNCHANGED hist)
    /\ \A t \in Thread : WF_vars(Putdown(t) /\ UNCHANGED hist)


----------------------------------------------------------------------------
\* The steps taken inside `with self.condition:` (pickup_forks line 75, with
\* the lock re-taken by condition.wait at line 88; putdown_forks line 92;
\* stop line 103).  The philosopher loop (lines 108-111) and the Start
\* branch of the button handler (lines 195-204) contain no `with`.
WithCondition ==
    \/ \E t \in Thread : PickupEnter(t) \/ PickupRecheck(t) \/ Putdown(t)
    \/ Stop

----------------------------------------------------------------------------
\* Vocabulary of the properties

next(i) == (i + 1) % NUM_PHILOSOPHERS

Blocked(t) == pc[t] \in {"wait", "woken"}

AllExited == \A t \in Thread : pc[t] = "dead"

Holds(i) == forks_in_use[left(i)] = i /\ forks_in_use[right(i)] = i

\* thread t takes the step that leaves the position p
Leaves(t, p) == pc[t] = p /\ pc'[t] # p

----------------------------------------------------------------------------
\* C1. Mutual exclusion: no two adjacent philosophers i and (i+1) mod N are
\* both EATING, in any reachable state of the program without restart.
C1_MutualExclusion ==
    \A i \in Idx : ~(state[i] = EATING /\ state[next(i)] = EATING)

\* two philosophers eat at once while a neighbour of one of them is blocked
\* hungry, after a timeout has already produced a DEADLOCK state
C1_Witness ==
    \E i \in Idx :
        /\ state[i] = EATING
        /\ state[next(i)] = HUNGRY
        /\ Blocked(<<next(i), 0>>)
        /\ \E j \in Idx : j # i /\ state[j] = EATING
        /\ \E k \in Idx : state[k] = DEADLOCK

\* C2. Ownership consistency: philosopher i is EATING iff it holds both its
\* forks, and every fork is free or held by one of its two neighbours.
C2_OwnershipConsistent ==
    /\ \A i \in Idx : (state[i] = EATING) <=> Holds(i)
    /\ \A f \in Idx : forks_in_use[f] \in {None, f, next(f)}

\* after a stop, a philosopher that is no longer running holds both forks
\* and a running one has just put its forks down
C2_Witness ==
    /\ ~running
    /\ \E i \in Idx : state[i] = EATING /\ Holds(i) /\ pc[<<i, 0>>] = "eat"
    /\ \E j \in Idx : state[j] = THINKING /\ forks_in_use[j] = None

\* C3. Deadlock freedom: while running, never are all N philosophers HUNGRY
\* and blocked in pickup_forks, and whenever some philosopher is blocked
\* HUNGRY, some philosopher is EATING.
C3_DeadlockFree ==
    running =>
        /\ ~(\A i \in Idx : state[i] = HUNGRY /\ \E t \in Thread : id(t) = i /\ Blocked(t))
        /\ (\E t \in Thread : Blocked(t) /\ state[id(t)] = HUNGRY)
              => (\E i \in Idx : state[i] = EATING)

\* C4. Shutdown leaves no fork held: once stop() has been called and every
\* philosopher loop has exited, every fork is free.
C4_NoForkHeldAfterShutdown ==
    (~running /\ AllExited) => \A f \in Idx : forks_in_use[f] = None

\* C5. Shutdown unblocks waiters: once stop() has been called no thread stays
\* inside the condition wait, a pickup_forks call that resumes from the wait
\* returns False, and every philosopher loop eventually exits.
C5_ShutdownUnblocks ==
    /\ [](~running => \A t \in Thread : pc[t] # "wait")
    /\ [][\A t \in Thread : (~running /\ Leaves(t, "woken")) => pc'[t] = "think"]_vars
    /\ (~running ~> AllExited)

\* stop() has been called while a thread was inside the wait: it is woken and
\* has not returned yet, another philosopher is still eating
C5_Witness ==
    /\ ~running
    /\ \E t \in Thread : pc[t] = "woken" /\ ~expired[t] /\ state[id(t)] = HUNGRY
    /\ \E t \in Thread : pc[t] = "eat"

\* C6. Restart preserves mutual exclusion: after stop and start, no two
\* adjacent philosophers are both EATING, and no fork held by an EATING
\* philosopher is freed by another thread (a step that takes a fork away
\* from an EATING philosopher is that philosopher's own putdown_forks, which
\* ends its EATING).
C6_RestartMutualExclusion ==
    [][/\ clicks' >= 2 => (\A i \in Idx : ~(state'[i] = EATING /\ state'[next(i)] = EATING))
       /\ clicks >= 2 =>
             \A f \in Idx : \A j \in Idx :
                (forks_in_use[f] = j /\ state[j] = EATING /\ forks_in_use'[f] # j)
                    => state'[j] # EATING]_vars

\* C7. At most one live philosopher thread per index, also after stop and
\* start commands.
C7_OneLoopPerIndex ==
    \A i \in Idx : Cardinality({t \in Alive : id(t) = i}) <= 1

\* C8. Deadlocked is terminal until restart: with no start command issued,
\* state[i] = DEADLOCK stays, and the thread whose pickup_forks returned
\* False calls pickup_forks no more.
C8_DeadlockTerminal ==
    [][\A i \in Idx : state[i] = DEADLOCK => state'[i] = DEADLOCK]_vars

C10_FailFast ==
    [][\A t \in Thread : (~running /\ Leaves(t, "pickup")) =>
            /\ pc'[t] = "think"
            /\ UNCHANGED <<state, forks_in_use, running>>]_vars

\* a thread is about to call pickup_forks after stop(), while another
\* philosopher is HUNGRY and one is EATING
C10_Witness ==
    /\ ~running
    /\ \E t \in Thread : pc[t] = "pickup" /\ state[id(t)] = THINKING
    /\ \E i \in Idx : state[i] = HUNGRY
    /\ \E i \in Idx : state[i] = EATING

\* C11. RunningFlag gates granting: while running is false, no actor's state
\* changes to EATING and no fork changes from free to held, also not as a
\* side effect of the putdown_forks of an actor that was eating at stop().
C11_NoGrantWhileStopped ==
    [][(~running /\ ~running') =>
          \A i \in Idx :
              /\ state[i] # EATING => state'[i] # EATING
              /\ forks_in_use[i] = None => forks_in_use'[i] = None]_vars

----------------------------------------------------------------------------
Adjacent(a, b) == b = next(a) \/ a = next(b)

ForksOf(i) == {left(i), right(i)}

\* putdown_forks(A) with A EATING, an adjacent B HUNGRY and blocked in
\* pickup_forks(B), B's other fork free and running true leaves B EATING
\* with both its forks, its waiting thread notified
C12_Cascade ==
    [][\A a \in Thread, b \in Idx :
          ( /\ Leaves(a, "eat")
            /\ running
            /\ state[id(a)] = EATING
            /\ Adjacent(id(a), b)
            /\ state[b] = HUNGRY
            /\ Blocked(<<b, 0>>)
            /\ \A f \in ForksOf(b) \ ForksOf(id(a)) : forks_in_use[f] = None )
          => /\ state'[b] = EATING
             /\ forks_in_use'[left(b)] = b
             /\ forks_in_use'[right(b)] = b
             /\ pc'[<<b, 0>>] = "woken"]_vars

\* C12. Release cascades: when putdown_forks(A) completes with an
\* adjacent blocked HUNGRY B whose other fork is free, B is EATING and holds
\* both forks, and B's pending pickup_forks call then returns True (the
\* thread goes on to eat) without a new request.
C12_ReleaseCascades ==
    /\ C12_Cascade
    /\ [][\A t \in Thread :
            (state[id(t)] = EATING /\ Leaves(t, "woken")) => pc'[t] = "eat"]_vars

----------------------------------------------------------------------------
\* C13. Zero-wait grant: if running is true and both forks adjacent to i
\* are free when pickup_forks(i) takes the lock, the call sets state[i] to
\* EATING, assigns both forks to i and returns True without waiting (the
\* thread goes from the call straight to eating), whatever the states of
\* the other actors; nothing else in the monitor changes.
C13_ZeroWaitGrant ==
    [][\A t \in Thread :
          ( /\ Leaves(t, "pickup")
            /\ running
            /\ forks_in_use[left(id(t))] = None
            /\ forks_in_use[right(id(t))] = None )
          => /\ pc'[t] = "eat"
             /\ state' = [state EXCEPT ![id(t)] = EATING]
             /\ forks_in_use' = [forks_in_use EXCEPT ![left(id(t))] = id(t),
                                                     ![right(id(t))] = id(t)]]_vars

\* pickup_forks(0) is about to take the lock with both forks of 0 free while
\* a non-adjacent actor eats and another non-adjacent actor is DEADLOCK
C13_Witness ==
    /\ running
    /\ pc[<<0, 0>>] = "pickup"
    /\ forks_in_use[left(0)] = None
    /\ forks_in_use[right(0)] = None
    /\ state[2] = EATING
    /\ state[3] = DEADLOCK

----------------------------------------------------------------------------
prev(i) == (i - 1 + NUM_PHILOSOPHERS) % NUM_PHILOSOPHERS

\* C14 as stated. No actor skipped forever: with running true, no timeout
\* firing and fair scheduling, a HUNGRY actor whose neighbours release after
\* every meal eventually becomes EATING.
C14_NoActorSkippedForever ==
    \A i \in Idx : (state[i] = HUNGRY) ~> (state[i] = EATING)

\* C14 amended. A HUNGRY actor is never passed over while neither of its
\* neighbours eats: a HUNGRY actor always has an EATING neighbour, and the
\* step after which neither neighbour eats makes it EATING itself.
C14_GrantedWhenNeighboursIdle ==
    /\ [](\A i \in Idx :
             state[i] = HUNGRY => state[prev(i)] = EATING \/ state[next(i)] = EATING)
    /\ [][\A i \in Idx :
             ( /\ state[i] = HUNGRY
               /\ state'[prev(i)] # EATING
               /\ state'[next(i)] # EATING )
             => /\ state'[i] = EATING
                /\ forks_in_use'[left(i)] = i
                /\ forks_in_use'[right(i)] = i]_vars

\* actor 0, blocked HUNGRY, has just been granted by the release after which
\* neither of its neighbours eats, while actor 2 is still passed over
C14_Witness ==
    /\ pc[<<0, 0>>] = "woken"
    /\ state[0] = EATING
    /\ state[1] = THINKING
    /\ state[4] = THINKING
    /\ state[2] = HUNGRY
    /\ state[3] = EATING

----------------------------------------------------------------------------
\* the clearing loop of the Start in progress has yet to visit index i
ClearingAhead(i) == mpc \in {"clear", "write"} /\ mi <= i

\* C15. Restart clears deadlock: once the start command has completed (or
\* its clearing loop has passed the index), no actor is DEADLOCK as a result
\* of a request that began before the start command, such as a waiter woken
\* by the preceding stop() that had not yet re-taken the lock.
C15_RestartClearsDeadlock ==
    [][\A t \in Thread :
          ( /\ t \in carried
            /\ Leaves(t, "woken")
            /\ state[id(t)] # DEADLOCK
            /\ state'[id(t)] = DEADLOCK )
          => ClearingAhead(id(t))]_vars

----------------------------------------------------------------------------
\* actor i is HUNGRY when test(i) looks at it in this step: it was HUNGRY
\* before the step, or the step is pickup_forks(i), which sets HUNGRY first
HungryAtTest(i) ==
    \/ state[i] = HUNGRY
    \/ \E t \in Thread : id(t) = i /\ Leaves(t, "pickup")

\* fork f is free when test looks at it in this step: it was free before the
\* step, or the step is a putdown_forks that has just released it
FreeAtTest(f) ==
    \/ forks_in_use[f] = None
    \/ \E t \in Thread : Leaves(t, "eat") /\ f \in ForksOf(id(t))

----------------------------------------------------------------------------
\* C17. No lost wakeup: no thread is inside condition.wait, un-notified,
\* while the state of its actor is EATING or while running is false; the
\* step that changes a waiting actor's state to EATING, and the step that
\* clears running, notify the waiting thread in the same critical section.
C17_NoLostWakeup ==
    /\ [](\A t \in Thread : pc[t] = "wait" => state[id(t)] # EATING /\ running)
    /\ [][\A t \in Thread :
            ( /\ pc[t] = "wait"
              /\ \/ state[id(t)] # EATING /\ state'[id(t)] = EATING
                 \/ running /\ ~running' )
            => pc'[t] = "woken"]_vars

\* a neighbour's putdown_forks has granted actor 2 while its thread was
\* waiting; the notify_all has also woken the waiting thread of actor 0,
\* which is still HUNGRY
C17_Witness ==
    /\ running
    /\ pc[<<2, 0>>] = "woken"
    /\ ~expired[<<2, 0>>]
    /\ state[2] = EATING
    /\ pc[<<0, 0>>] = "woken"
    /\ ~expired[<<0, 0>>]
    /\ state[0] = HUNGRY

----------------------------------------------------------------------------
\* C18. Lock discipline: every step that writes state[], forks_in_use[] or
\* running, and every step in which a thread reads running to decide what
\* to do next (the philosopher loop's reads included), is taken holding the
\* condition lock.
C18_LockDiscipline ==
    [][( \/ state' # state
         \/ forks_in_use' # forks_in_use
         \/ running' # running
         \/ \E t \in Thread : Leaves(t, "think") )
       => WithCondition]_vars

----------------------------------------------------------------------------
\* C19. A failed request holds nothing: whenever pickup_forks(i) returns
\* False (the thread goes back to the top of its loop instead of eating),
\* actor i holds no fork and state[i] is not EATING at the return.
C19_FailedRequestHoldsNothing ==
    [][\A t \in Thread :
          ( /\ Leaves(t, "pickup") \/ Leaves(t, "woken")
            /\ pc'[t] = "think" )
          => /\ state'[id(t)] # EATING
             /\ \A f \in Idx : forks_in_use'[f] # id(t)]_vars

----------------------------------------------------------------------------
\* C20. Work-conserving grants: in every reachable state of the program
\* without restart, between critical sections, there is no HUNGRY actor
\* whose two forks are both free.
C20_WorkConserving ==
    \A i \in Idx :
        ~( /\ state[i] = HUNGRY
           /\ forks_in_use[left(i)] = None
           /\ forks_in_use[right(i)] = None )

\* actor 1 is blocked HUNGRY with its left fork released by actor 0, which
\* has eaten and put its forks down, and its right fork still held by the
\* eating actor 2
C20_Witness ==
    /\ state[1] = HUNGRY
    /\ Blocked(<<1, 0>>)
    /\ state[0] = THINKING
    /\ pc[<<0, 0>>] = "think"
    /\ forks_in_use[left(1)] = None
    /\ forks_in_use[right(1)] = 2
    /\ state[2] = EATING
    /\ state[4] = DEADLOCK

====
